---- MODULE Spec2Model ----
(***************************************************************************)
(* Model of microservices/upload_service/src/utils/process_task_helpers.py *)
(* run_pipeline and its helpers, as a sequential state machine whose steps *)
(* are the collaborator calls (Classify, Extract, Validate, Match,          *)
(* ComputeApprovalStatus = get_values, UpdateApprovalStatus).  The          *)
(* responses of the collaborators are the nondeterministic inputs.  Every   *)
(* call is appended to the history variable calls.                          *)
(***************************************************************************)
EXTENDS Naturals, Sequences, FiniteSets

VARIABLES is_hitl, is_reassign, configs, applications, supporting_docs,
          extraction_score, ext_local, validation_score, matching_score,
          pc, i, calls

vars == <<is_hitl, is_reassign, configs, applications, supporting_docs,
          extraction_score, ext_local, validation_score, matching_score,
          pc, i, calls>>

\* the flags are never written after construction
inputs == <<is_hitl, is_reassign>>
\* the locals of the stage functions
locals == <<ext_local, validation_score, matching_score>>

(* ------------------------------ bounds ------------------------------- *)
MaxDocs == 2
MaxScore == 1

(* ------------------------------ values ------------------------------- *)
\* Python None for a score; scores returned by the collaborators are 1..MaxScore
None == 0
\* Python None for a string (a key missing from a dict read with .get)
NoneStr == "None"
Scores == 1..MaxScore
\* document_type values a batch entry can carry on input
InputTypes == {"application_form", "supporting_documents", "other", NoneStr}
\* doc_type / doc_class values a 200 classification response can carry
RespTypes == {"application_form", "supporting_documents", "other", NoneStr}
RespClasses == {"cls", NoneStr}
\* outcome of requests.post + the reads of the response:
\*   ok = status 200, fail = any other status, raise = an exception
Statuses == {"ok", "fail", "raise"}

\* a batch entry: document_class is not set before classification
Config(t) == [document_type |-> t, document_class |-> NoneStr]

\* batches whose entries carry a document_type (hitl / reassign requests)
Batches == UNION {[1..n -> {Config(t) : t \in InputTypes}] : n \in 0..MaxDocs}

\* batches of raw entries (case_id, uid, gcs_url only), as sent for
\* classification; filter_documents never reads document_type
RawBatches == UNION {[1..n -> {Config(NoneStr)}] : n \in 0..MaxDocs}

\* one entry of the call history
Call(op, doc, res, cls, dtype, score, vs, es, ms) ==
  [op |-> op, doc |-> doc, res |-> res, cls |-> cls, dtype |-> dtype,
   score |-> score, vs |-> vs, es |-> es, ms |-> ms]

(* --------------------------- pure helpers ---------------------------- *)
\* variant: the status code is not looked at
IsSuccessAnyStatus(res) == res # "raise"

\* response.status_code == 200
IsSuccess(res) == res = "ok"

\* variant: every non-200 response raises (as raise_for_status would)
PropagatesOnFailure(res) == res # "ok"

\* variant: the exception is swallowed and the call counts as failed
PropagatesNever(res) == FALSE

\* an exception raised inside the try block reaches the except clause
Propagates(res) == res = "raise"

\* variant: if is_hitl
UseFastPathHitlOnly(hitl, reassign) == hitl

\* variant: if is_reassign
UseFastPathReassignOnly(hitl, reassign) == reassign

\* if is_hitl or is_reassign
UseFastPath(hitl, reassign) == hitl \/ reassign

\* variant: payload.get("configs")[-1]
RoutedIndexLast(cfgs) == Len(cfgs)

\* payload.get("configs")[0]: the entry get_documents looks at (1-based here)
RoutedIndex(cfgs) == 1

\* variant: else instead of elif, every other type is a supporting document
RouteOfElseSupporting(document_type) ==
  IF document_type = "application_form" THEN "applications"
  ELSE "supporting_docs"

\* variant: a missing type is taken for an application form
RouteOfMissingIsApplication(document_type) ==
  IF document_type \in {"application_form", NoneStr} THEN "applications"
  ELSE IF document_type = "supporting_documents" THEN "supporting_docs"
  ELSE "none"

\* the if / elif on document_type in filter_documents and get_documents
RouteOf(document_type) ==
  IF document_type = "application_form" THEN "applications"
  ELSE IF document_type = "supporting_documents" THEN "supporting_docs"
  ELSE "none"

\* what the history keeps of an update_autoapproval_status response: the
\* callers never read it (lines 152-153 and 192-193), so a 200 and a non-200
\* response are one outcome, "returned"
UpdateOutcome(res) == IF res = "raise" THEN "raise" ELSE "returned"

\* variant: group.insert(0, config)
AddToGroupFront(group, d) == <<d>> \o group

\* application_form.append(config) / supporting_docs.append(config)
AddToGroup(group, d) == Append(group, d)

\* variant: a failed extraction leaves the caller's score as it was
ExtractResultKeepsPrevious(res, score, previous) ==
  IF res = "ok" THEN score ELSE previous

\* the value extract_documents returns, assigned to extraction_score by
\* run_pipeline: the score of a 200 response, None otherwise, whatever the
\* variable held before
ExtractResult(res, score, previous) == IF IsSuccess(res) THEN score ELSE None

\* variant: the supporting document is extracted in every mode
ExtractsSupportingAlways(reassign) == TRUE

\* if not is_reassign: extract the supporting document
ExtractsSupporting(reassign) == ~reassign

\* where the supporting-document loop body starts
SupEntry == IF ExtractsSupporting(is_reassign) THEN "sup_extract" ELSE "sup_validate"

\* variant: a hitl run indexes the empty groups and raises
AfterRoutingHitlRaisesOnEmpty(apps, sups) ==
  IF is_hitl /\ apps = <<>> /\ sups = <<>> THEN "error"
  ELSE IF apps # <<>> THEN "app_extract"
  ELSE IF sups # <<>> THEN SupEntry
  ELSE "done"

\* variant: a reassign run skips the application forms as well
AfterRoutingReassignSkipsApplications(apps, sups) ==
  IF is_hitl \/ apps # <<>> \/ sups # <<>>
  THEN IF apps # <<>> /\ ~is_reassign THEN "app_extract"
       ELSE IF sups # <<>> THEN SupEntry
       ELSE "done"
  ELSE "done"

\* control after the routing step: the guard of line 35 and the two loops
AfterRouting(apps, sups) ==
  IF is_hitl \/ apps # <<>> \/ sups # <<>>
  THEN IF apps # <<>> THEN "app_extract"
       ELSE IF sups # <<>> THEN SupEntry
       ELSE "done"
  ELSE "done"

\* control after the chain of application k
AfterApp(k) ==
  IF k < Len(applications) THEN "app_extract"
  ELSE IF supporting_docs # <<>> THEN SupEntry
  ELSE "done"

\* control after the chain of supporting document k
AfterSup(k) == IF k < Len(supporting_docs) THEN SupEntry ELSE "done"

(* ------------------------------- Init -------------------------------- *)
Init ==
  /\ is_hitl \in BOOLEAN
  /\ is_reassign \in BOOLEAN
  /\ configs \in IF is_hitl \/ is_reassign THEN Batches ELSE RawBatches
  /\ applications = <<>>
  /\ supporting_docs = <<>>
  /\ extraction_score = None
  /\ ext_local = None
  /\ validation_score = None
  /\ matching_score = None
  /\ pc = "start"
  /\ i = 1
  /\ calls = <<>>

(* ------------------------------ routing ------------------------------ *)
\* get_documents(payload): routes configs[0] by its own document_type
GetDocuments ==
  /\ pc = "start"
  /\ UseFastPath(is_hitl, is_reassign)
  /\ IF configs = <<>>
     THEN \* payload.get("configs")[0] raises IndexError
          /\ pc' = "error"
          /\ UNCHANGED <<applications, supporting_docs>>
     ELSE LET first == RoutedIndex(configs)
              r == RouteOf(configs[first].document_type)
              apps == IF r = "applications" THEN <<first>> ELSE <<>>
              sups == IF r = "supporting_docs" THEN <<first>> ELSE <<>>
          IN /\ applications' = apps
             /\ supporting_docs' = sups
             /\ pc' = AfterRouting(apps, sups)
  /\ UNCHANGED <<inputs, locals, configs, extraction_score, i, calls>>

\* run_pipeline, elif not is_reassign: enter filter_documents
\* (when the fast path is not taken and is_reassign holds, no routing runs)
EnterFilter ==
  /\ pc = "start"
  /\ ~UseFastPath(is_hitl, is_reassign)
  /\ pc' = IF ~is_reassign
           THEN (IF configs = <<>> THEN AfterRouting(<<>>, <<>>) ELSE "classify")
           ELSE AfterRouting(<<>>, <<>>)
  /\ UNCHANGED <<inputs, locals, configs, applications, supporting_docs,
                 extraction_score, i, calls>>

\* one iteration of the loop of filter_documents, for configs[i]
Classify ==
  /\ pc = "classify"
  /\ \E res \in Statuses, dtype \in RespTypes, cls \in RespClasses :
       /\ (res # "ok") => (dtype = NoneStr /\ cls = NoneStr)
       /\ calls' = Append(calls, Call("Classify", i, res, cls, dtype,
                                      None, None, None, None))
       /\ IF Propagates(res)
          THEN /\ pc' = "error"
               /\ UNCHANGED <<configs, applications, supporting_docs, i>>
          ELSE LET r == IF IsSuccess(res) THEN RouteOf(dtype) ELSE "none"
                   cfgs == IF r # "none"
                           THEN [configs EXCEPT ![i].document_class = cls]
                           ELSE configs
                   apps == IF r = "applications"
                           THEN AddToGroup(applications, i) ELSE applications
                   sups == IF r = "supporting_docs"
                           THEN AddToGroup(supporting_docs, i) ELSE supporting_docs
               IN /\ configs' = cfgs
                  /\ applications' = apps
                  /\ supporting_docs' = sups
                  /\ IF i < Len(configs)
                     THEN /\ i' = i + 1
                          /\ pc' = "classify"
                     ELSE /\ i' = 1
                          /\ pc' = AfterRouting(apps, sups)
  /\ UNCHANGED <<inputs, locals, extraction_score>>

(* ----------------------- application-form chain ---------------------- *)
\* variant: the loop does not advance, the same document is taken again
NextIndexRepeats(k, target, loop) == IF target = loop THEN k ELSE 1

\* index of the next loop iteration after iteration k, given the next pc
NextIndex(k, target, loop) == IF target = loop THEN k + 1 ELSE 1

\* extract_documents(doc, "application_form"): the Extract call
ExtractApplication ==
  /\ pc = "app_extract"
  /\ LET doc == applications[i]
         cls == configs[doc].document_class
     IN \E res \in Statuses, score \in Scores \cup {None} :
          /\ (res = "ok") <=> (score # None)
          /\ calls' = Append(calls, Call("Extract", doc, res, cls,
                                "application_form", score, None, None, None))
          /\ IF Propagates(res)
             THEN /\ pc' = "error"
                  /\ UNCHANGED <<extraction_score, ext_local, i>>
             ELSE IF IsSuccess(res)
             THEN /\ ext_local' = score
                  /\ pc' = "app_approve"
                  /\ UNCHANGED <<extraction_score, i>>
             ELSE \* extraction failed: return None, no status is written
                  /\ extraction_score' = None
                  /\ ext_local' = None
                  /\ pc' = AfterApp(i)
                  /\ i' = NextIndex(i, AfterApp(i), "app_extract")
  /\ UNCHANGED <<inputs, configs, applications, supporting_docs,
                 validation_score, matching_score>>

\* extract_documents, the application_form branch: get_values, then
\* update_autoapproval_status, then return extraction_score
ApproveApplication ==
  /\ pc = "app_approve"
  /\ LET doc == applications[i]
         cls == configs[doc].document_class
         gv(r) == Call("ComputeApprovalStatus", doc, r, cls,
                       "application_form", None, None, ext_local, None)
         up(r) == Call("UpdateApprovalStatus", doc, r, NoneStr,
                       "application_form", None, None, ext_local, None)
     IN \/ /\ calls' = Append(calls, gv("raise"))
           /\ pc' = "error"
           /\ UNCHANGED <<extraction_score, ext_local, i>>
        \/ \E res \in Statuses :
             /\ calls' = calls \o <<gv("ok"), up(UpdateOutcome(res))>>
             /\ IF Propagates(res)
                THEN /\ pc' = "error"
                     /\ UNCHANGED <<extraction_score, ext_local, i>>
                ELSE /\ extraction_score' = ext_local
                     /\ ext_local' = None
                     /\ pc' = AfterApp(i)
                     /\ i' = NextIndex(i, AfterApp(i), "app_extract")
  /\ UNCHANGED <<inputs, configs, applications, supporting_docs,
                 validation_score, matching_score>>

(* --------------------- supporting-document chain --------------------- *)
\* extract_documents(doc, "supporting_documents")
ExtractSupporting ==
  /\ pc = "sup_extract"
  /\ LET doc == supporting_docs[i]
         cls == configs[doc].document_class
     IN \E res \in Statuses, score \in Scores \cup {None} :
          /\ (res = "ok") <=> (score # None)
          /\ calls' = Append(calls, Call("Extract", doc, res, cls,
                                "supporting_documents", score, None, None, None))
          /\ IF Propagates(res)
             THEN /\ pc' = "error"
                  /\ UNCHANGED extraction_score
             ELSE /\ extraction_score' = ExtractResult(res, score, extraction_score)
                  /\ pc' = "sup_validate"
  /\ UNCHANGED <<inputs, locals, configs, applications, supporting_docs, i>>

\* validate_match_approve: the Validate call
Validate ==
  /\ pc = "sup_validate"
  /\ LET doc == supporting_docs[i]
         cls == configs[doc].document_class
     IN \E res \in Statuses, score \in Scores \cup {None} :
          /\ (res = "ok") <=> (score # None)
          /\ calls' = Append(calls, Call("Validate", doc, res, cls,
                                "supporting_documents", score, None,
                                extraction_score, None))
          /\ IF Propagates(res)
             THEN /\ pc' = "error"
                  /\ UNCHANGED <<validation_score, i>>
             ELSE IF IsSuccess(res)
             THEN /\ validation_score' = score
                  /\ pc' = "sup_match"
                  /\ UNCHANGED i
             ELSE /\ validation_score' = None
                  /\ pc' = AfterSup(i)
                  /\ i' = NextIndex(i, AfterSup(i), SupEntry)
  /\ UNCHANGED <<inputs, configs, applications, supporting_docs,
                 extraction_score, ext_local, matching_score>>

\* validate_match_approve: the Match call
Match ==
  /\ pc = "sup_match"
  /\ LET doc == supporting_docs[i]
     IN \E res \in Statuses, score \in Scores \cup {None} :
          /\ (res = "ok") <=> (score # None)
          /\ calls' = Append(calls, Call("Match", doc, res, NoneStr,
                                "supporting_documents", score,
                                validation_score, extraction_score, None))
          /\ IF Propagates(res)
             THEN /\ pc' = "error"
                  /\ UNCHANGED <<validation_score, matching_score, i>>
             ELSE IF IsSuccess(res)
             THEN /\ matching_score' = score
                  /\ pc' = "sup_approve"
                  /\ UNCHANGED <<validation_score, i>>
             ELSE /\ validation_score' = None
                  /\ matching_score' = None
                  /\ pc' = AfterSup(i)
                  /\ i' = NextIndex(i, AfterSup(i), SupEntry)
  /\ UNCHANGED <<inputs, configs, applications, supporting_docs,
                 extraction_score, ext_local>>

\* update_autoapproval: get_values, then update_autoapproval_status
UpdateAutoapproval ==
  /\ pc = "sup_approve"
  /\ LET doc == supporting_docs[i]
         cls == configs[doc].document_class
         gv(r) == Call("ComputeApprovalStatus", doc, r, cls,
                       "supporting_documents", None, validation_score,
                       extraction_score, matching_score)
         up(r) == Call("UpdateApprovalStatus", doc, r, NoneStr,
                       "supporting_documents", None, validation_score,
                       extraction_score, matching_score)
     IN \/ /\ calls' = Append(calls, gv("raise"))
           /\ pc' = "error"
           /\ UNCHANGED <<validation_score, matching_score, i>>
        \/ \E res \in Statuses :
             /\ calls' = calls \o <<gv("ok"), up(UpdateOutcome(res))>>
             /\ IF Propagates(res)
                THEN /\ pc' = "error"
                     /\ UNCHANGED <<validation_score, matching_score, i>>
                ELSE /\ validation_score' = None
                     /\ matching_score' = None
                     /\ pc' = AfterSup(i)
                     /\ i' = NextIndex(i, AfterSup(i), SupEntry)
  /\ UNCHANGED <<inputs, configs, applications, supporting_docs,
                 extraction_score, ext_local>>

Next ==
  \/ GetDocuments
  \/ EnterFilter
  \/ Classify
  \/ ExtractApplication
  \/ ApproveApplication
  \/ ExtractSupporting
  \/ Validate
  \/ Match
  \/ UpdateAutoapproval

Spec == Init /\ [][Next]_vars

\* run_pipeline is one thread of blocking calls: a step that can be taken
\* is taken
FairSpec == Spec /\ WF_vars(Next)

(* ------------------------ reading the history ------------------------ *)
InSeq(d, s) == \E k \in DOMAIN s : s[k] = d
Routed(d) == InSeq(d, applications) \/ InSeq(d, supporting_docs)
CallsOf(op, d) == {k \in DOMAIN calls : calls[k].op = op /\ calls[k].doc = d}
Count(op, d) == Cardinality(CallsOf(op, d))
Succeeded(op, d) == \E k \in CallsOf(op, d) : calls[k].res = "ok"
Downstream == {"Validate", "Match", "UpdateApprovalStatus"}
ChainOps == {"Extract", "Validate", "Match", "ComputeApprovalStatus",
             "UpdateApprovalStatus"}
Standard == ~is_hitl /\ ~is_reassign
FastPath == is_hitl \/ is_reassign
\* the routing step has returned (no exception inside it)
RoutingReturned ==
  /\ pc \notin {"start", "classify"}
  /\ ~(FastPath /\ configs = <<>>)
  /\ \A k \in DOMAIN calls : ~(calls[k].op = "Classify" /\ calls[k].res = "raise")

(* ------------------------------ claims ------------------------------- *)
\* C1 (as stated): a document whose Extract call returned non-success gets
\* no later Validate, Match or UpdateApprovalStatus call, and in a completed
\* run every routed document has had its chain started.
C1_ExtractFailureIsolation ==
  /\ \A k \in DOMAIN calls :
       (calls[k].op = "Extract" /\ calls[k].res = "fail") =>
         \A m \in DOMAIN calls :
           (m > k /\ calls[m].doc = calls[k].doc) => calls[m].op \notin Downstream
  /\ pc = "done" =>
       \A d \in DOMAIN configs :
         Routed(d) => \E k \in DOMAIN calls :
                        calls[k].doc = d /\ calls[k].op \in ChainOps

\* C2: in a completed run, an application form has exactly one
\* UpdateApprovalStatus call if its Extract call succeeded and none otherwise;
\* a supporting document has exactly one if its Validate and its Match call
\* both succeeded and none otherwise, whatever its Extract call returned.
C2_ApprovalWriteCount ==
  pc = "done" =>
    /\ \A k \in DOMAIN applications :
         Count("UpdateApprovalStatus", applications[k]) =
           IF Succeeded("Extract", applications[k]) THEN 1 ELSE 0
    /\ \A k \in DOMAIN supporting_docs :
         Count("UpdateApprovalStatus", supporting_docs[k]) =
           IF Succeeded("Validate", supporting_docs[k])
              /\ Succeeded("Match", supporting_docs[k]) THEN 1 ELSE 0

\* C2 witness: a completed run with an approved application form and a
\* supporting document approved although its Extract call failed.
C2_Witness ==
  /\ pc = "done"
  /\ \E k \in DOMAIN applications :
       Count("UpdateApprovalStatus", applications[k]) = 1
  /\ \E k \in DOMAIN supporting_docs :
       /\ \E m \in CallsOf("Extract", supporting_docs[k]) : calls[m].res = "fail"
       /\ Count("UpdateApprovalStatus", supporting_docs[k]) = 1

\* C3: in standard mode, once filter_documents has returned, no config is in
\* both groups, and a config is in neither group exactly when its Classify
\* call returned non-success or a doc_type that is neither application_form
\* nor supporting_documents.
C3_StandardPartition ==
  (Standard /\ RoutingReturned) =>
    \A d \in DOMAIN configs :
      /\ ~(InSeq(d, applications) /\ InSeq(d, supporting_docs))
      /\ ~Routed(d) <=>
           \E k \in CallsOf("Classify", d) :
             \/ calls[k].res # "ok"
             \/ calls[k].dtype \notin {"application_form", "supporting_documents"}

\* C3 witness: a classified batch with one routed and one unrouted document.
C3_Witness ==
  /\ Standard /\ RoutingReturned
  /\ \E d \in DOMAIN configs : Routed(d)
  /\ \E d \in DOMAIN configs :
       ~Routed(d) /\ \E k \in CallsOf("Classify", d) : calls[k].dtype = "other"

\* C4: in hitl / reassign mode only the first config is ever in a group; it
\* is in applications alone when its document_type is application_form, in
\* supporting_docs alone when it is supporting_documents, in neither group
\* otherwise; and no collaborator call is made for any later config.
C4_FastPathRouting ==
  FastPath =>
    /\ \A k \in DOMAIN applications : applications[k] = 1
    /\ \A k \in DOMAIN supporting_docs : supporting_docs[k] = 1
    /\ \A k \in DOMAIN calls : calls[k].doc = 1
    /\ RoutingReturned =>
         /\ applications =
              IF configs[1].document_type = "application_form"
              THEN <<1>> ELSE <<>>
         /\ supporting_docs =
              IF configs[1].document_type = "supporting_documents"
              THEN <<1>> ELSE <<>>

\* C4 witness: a completed fast-path run over a batch of more than one entry
\* in which the first entry was processed.
C4_Witness ==
  /\ FastPath /\ pc = "done"
  /\ Len(configs) > 1
  /\ Routed(1) /\ calls # <<>>

\* C5: with is_reassign set, no Extract call is made for a supporting
\* document, a completed run has made a Validate call for every routed
\* supporting document, and the extraction score handed to
\* validate_match_approve and to the approval decision is None.
C5_ReassignSkipsExtraction ==
  is_reassign =>
    /\ \A k \in DOMAIN calls :
         calls[k].op = "Extract" => ~InSeq(calls[k].doc, supporting_docs)
    /\ pc = "done" =>
         \A k \in DOMAIN supporting_docs : Count("Validate", supporting_docs[k]) = 1
    /\ \A k \in DOMAIN calls :
         InSeq(calls[k].doc, supporting_docs) => calls[k].es = None
    /\ pc \in {"sup_validate", "sup_match", "sup_approve"} => extraction_score = None

\* C5 witness: a completed reassign run that wrote the approval of a
\* supporting document.
C5_Witness ==
  /\ is_reassign /\ pc = "done"
  /\ \E k \in DOMAIN supporting_docs :
       Count("UpdateApprovalStatus", supporting_docs[k]) = 1

\* C6 (as stated): with is_reassign set and is_hitl not set no routing step
\* runs, so both groups stay empty.
C6_ReassignOnlySkipsRouting ==
  (is_reassign /\ ~is_hitl) => (applications = <<>> /\ supporting_docs = <<>>)

\* C6 (amended): with is_reassign set and is_hitl not set only the Classifier
\* Router is skipped; the first-entry router runs, so after routing
\* applications holds configs[0] exactly when its document_type is
\* application_form and supporting_docs holds it exactly when it is
\* supporting_documents, and no Classify call is made.
C6_ReassignOnlyUsesFirstEntryRouter ==
  (is_reassign /\ ~is_hitl) =>
    /\ \A k \in DOMAIN calls : calls[k].op # "Classify"
    /\ RoutingReturned =>
         /\ (applications = <<1>>) <=> (configs[1].document_type = "application_form")
         /\ (supporting_docs = <<1>>) <=>
              (configs[1].document_type = "supporting_documents")
         /\ Len(applications) + Len(supporting_docs) <= 1

\* C6 witness: a reassign-only run that routed its first entry.
C6_Witness ==
  /\ is_reassign /\ ~is_hitl
  /\ supporting_docs = <<1>>
  /\ pc = "done"

\* C7 (as stated): in standard mode a 200 Classify response without doc_type
\* or without doc_class leaves the document out of both groups and the
\* document gets no further call.
C7_OmissionExcludes ==
  Standard =>
    \A k \in DOMAIN calls :
      (/\ calls[k].op = "Classify"
       /\ calls[k].res = "ok"
       /\ (calls[k].dtype = NoneStr \/ calls[k].cls = NoneStr)) =>
        /\ ~Routed(calls[k].doc)
        /\ \A m \in DOMAIN calls :
             calls[m].doc = calls[k].doc => calls[m].op = "Classify"

\* C7 (amended): in standard mode a 200 Classify response without doc_type
\* leaves the document out of both groups and the document gets no further
\* call; a response with a recognised doc_type and without doc_class still
\* routes the document by its doc_type, with document_class None.
C7_MissingTypeExcludes ==
  Standard =>
    \A k \in DOMAIN calls :
      (calls[k].op = "Classify" /\ calls[k].res = "ok") =>
        /\ calls[k].dtype = NoneStr =>
             /\ ~Routed(calls[k].doc)
             /\ \A m \in DOMAIN calls :
                  calls[m].doc = calls[k].doc => calls[m].op = "Classify"
        /\ (calls[k].dtype = "application_form" /\ calls[k].cls = NoneStr) =>
             /\ InSeq(calls[k].doc, applications)
             /\ configs[calls[k].doc].document_class = NoneStr
        /\ (calls[k].dtype = "supporting_documents" /\ calls[k].cls = NoneStr) =>
             /\ InSeq(calls[k].doc, supporting_docs)
             /\ configs[calls[k].doc].document_class = NoneStr

\* C7 witness: a completed standard run with one document classified without
\* doc_type and one classified without doc_class that was extracted.
C7_Witness ==
  /\ Standard /\ pc = "done"
  /\ \E k \in DOMAIN calls :
       calls[k].op = "Classify" /\ calls[k].res = "ok" /\ calls[k].dtype = NoneStr
  /\ \E k \in DOMAIN calls :
       /\ calls[k].op = "Classify" /\ calls[k].res = "ok"
       /\ calls[k].dtype # NoneStr /\ calls[k].cls = NoneStr
       /\ Count("Extract", calls[k].doc) = 1

\* C8: with is_hitl or is_reassign set no Classify call is ever made.
C8_NoClassifyOnFastPath ==
  FastPath => \A k \in DOMAIN calls : calls[k].op # "Classify"

\* C8 witness: a completed fast-path run that made collaborator calls.
C8_Witness ==
  /\ FastPath /\ pc = "done"
  /\ \E k \in DOMAIN calls : calls[k].op = "Match"

\* C9: the pipeline error is raised only after an exception: a run over a
\* well-formed batch in which every collaborator answered (successfully or
\* not) is never in the error outcome.
C9_FailuresNeverFailBatch ==
  pc = "error" =>
    \/ FastPath /\ configs = <<>>
    \/ \E k \in DOMAIN calls : calls[k].res = "raise"

\* C9 witness: a run that returned normally although a Classify, an Extract
\* and a Validate call came back non-success.
C9_Witness ==
  /\ pc = "done"
  /\ \A op \in {"Classify", "Extract", "Validate"} :
       \E k \in DOMAIN calls : calls[k].op = op /\ calls[k].res = "fail"

\* C10: an exception ends the run in the error outcome at once: a call that
\* raised is the last call of the history, and a hitl / reassign run over an
\* empty configs list ends in the error outcome without any call.
C10_ExceptionAbortsBatch ==
  /\ \A k \in DOMAIN calls :
       calls[k].res = "raise" => (k = Len(calls) /\ pc = "error")
  /\ (FastPath /\ configs = <<>> /\ pc # "start") => (pc = "error" /\ calls = <<>>)

\* C10 witness: a run aborted by an exception in the chain of the first
\* routed document, with a routed document behind it left without any call.
C10_Witness ==
  /\ pc = "error"
  /\ calls # <<>> /\ calls[Len(calls)].res = "raise"
  /\ \E d \in DOMAIN configs :
       Routed(d) /\ \A op \in ChainOps : Count(op, d) = 0

\* C11: for a supporting document, a Validate call that did not succeed is
\* followed by no Match and no UpdateApprovalStatus call for it; a Match call
\* comes only after a successful Validate call for the same document, and an
\* UpdateApprovalStatus call only after a successful Match call for it.
C11_ValidationGate ==
  \A k \in DOMAIN calls :
    LET d == calls[k].doc IN
    /\ (calls[k].op = "Validate" /\ calls[k].res # "ok") =>
         (Count("Match", d) = 0 /\ Count("UpdateApprovalStatus", d) = 0)
    /\ calls[k].op = "Match" =>
         \E m \in CallsOf("Validate", d) : m < k /\ calls[m].res = "ok"
    /\ (calls[k].op = "UpdateApprovalStatus"
        /\ calls[k].dtype = "supporting_documents") =>
         \E m \in CallsOf("Match", d) : m < k /\ calls[m].res = "ok"

\* C11 witness: a completed run in which one supporting document failed
\* validation and another one was validated, matched and approved.
C11_Witness ==
  /\ pc = "done"
  /\ \E k \in DOMAIN calls : calls[k].op = "Validate" /\ calls[k].res = "fail"
  /\ \E k \in DOMAIN calls :
       calls[k].op = "UpdateApprovalStatus"
       /\ calls[k].dtype = "supporting_documents"

\* C12: Extract, Validate, Match, ComputeApprovalStatus and
\* UpdateApprovalStatus calls are made only for members of the two groups; a
\* document whose Classify call failed gets no other call; that failure does
\* not stop the loop, and a completed standard run has classified every
\* config and started the chain of every routed document.
C12_UnroutedGetNoCalls ==
  /\ \A k \in DOMAIN calls : calls[k].op \in ChainOps => Routed(calls[k].doc)
  /\ \A k \in DOMAIN calls :
       (calls[k].op = "Classify" /\ calls[k].res = "fail") =>
         /\ \A m \in DOMAIN calls : calls[m].doc = calls[k].doc => m = k
         /\ k = Len(calls) =>
              /\ pc # "error"
              /\ calls[k].doc < Len(configs) =>
                   (pc = "classify" /\ i = calls[k].doc + 1)
  /\ (Standard /\ pc = "done") =>
       \A d \in DOMAIN configs :
         /\ Count("Classify", d) = 1
         /\ Routed(d) => \E k \in DOMAIN calls :
                           calls[k].doc = d /\ calls[k].op \in ChainOps

\* C12 witness: a completed run in which the first document failed
\* classification and a later one was routed and approved.
C12_Witness ==
  /\ pc = "done"
  /\ \E k \in CallsOf("Classify", 1) : calls[k].res = "fail"
  /\ \E d \in DOMAIN configs : d > 1 /\ Count("UpdateApprovalStatus", d) = 1

\* C13: when routing has returned two empty groups, in any flag combination,
\* the run is over without error and has made no Extract, Validate, Match,
\* ComputeApprovalStatus or UpdateApprovalStatus call.
C13_EmptyRoutingIsNoOp ==
  (RoutingReturned /\ applications = <<>> /\ supporting_docs = <<>>) =>
    /\ pc = "done"
    /\ \A k \in DOMAIN calls : calls[k].op \notin ChainOps

\* C13 witness: a hitl run over a non-empty batch that routed nothing and
\* returned.
C13_Witness ==
  /\ is_hitl /\ configs # <<>>
  /\ pc = "done"
  /\ applications = <<>> /\ supporting_docs = <<>>

\* C14: the scores of every approval decision and approval write of a
\* supporting document are its own: the extraction score is the score of its
\* own successful Extract call of this run, or None when that call failed or
\* was not made (never the score of an application form or of another
\* supporting document); the validation and matching scores are those of its
\* own Validate and Match calls.
C14_NoStaleScore ==
  \A k \in DOMAIN calls :
    (/\ calls[k].op \in {"ComputeApprovalStatus", "UpdateApprovalStatus"}
     /\ calls[k].dtype = "supporting_documents") =>
      LET d == calls[k].doc
          own == {m \in CallsOf("Extract", d) : m < k /\ calls[m].res = "ok"}
      IN /\ IF own = {} THEN calls[k].es = None
            ELSE \A m \in own : calls[m].score = calls[k].es
         /\ \E m \in CallsOf("Validate", d) :
              m < k /\ calls[m].res = "ok" /\ calls[m].score = calls[k].vs
         /\ \E m \in CallsOf("Match", d) :
              m < k /\ calls[m].res = "ok" /\ calls[m].score = calls[k].ms

\* C14 witness: an application form was extracted with a score, then a
\* supporting document whose own extraction failed was approved with
\* extraction score None.
C14_Witness ==
  /\ \E k \in DOMAIN calls :
       /\ calls[k].op = "Extract" /\ calls[k].dtype = "application_form"
       /\ calls[k].res = "ok"
  /\ \E k \in DOMAIN calls :
       /\ calls[k].op = "UpdateApprovalStatus"
       /\ calls[k].dtype = "supporting_documents"
       /\ calls[k].es = None
       /\ \E m \in CallsOf("Extract", calls[k].doc) : calls[m].res = "fail"

\* position of a call in the order of run_pipeline: classification first,
\* then the application-form chains, then the supporting-document chains
Phase(c) ==
  IF c.op = "Classify" THEN 0
  ELSE IF c.dtype = "application_form" THEN 1
  ELSE 2

\* call a may come directly before call b
MayPrecede(a, b) ==
  \/ Phase(a) < Phase(b)
  \/ /\ Phase(a) = Phase(b)
     /\ \/ a.doc < b.doc
        \/ a.doc = b.doc /\ a.op # "Classify"

\* C15: Classify calls are made in input order and before every call of a
\* chain; the chains of the application forms all come before the first call
\* of a supporting-document chain; inside a group the documents are taken in
\* input order; and the calls of two documents' chains are not interleaved.
\* Stated on consecutive calls (the order is transitive): each call is
\* followed by a call of a later phase, of a later document of its phase, or
\* by a further chain call of its own document; and a chain call belongs to
\* the one group its document is in.
C15_CallOrdering ==
  /\ \A k \in DOMAIN calls :
       k < Len(calls) => MayPrecede(calls[k], calls[k + 1])
  /\ \A k \in DOMAIN calls :
       calls[k].op \in ChainOps =>
         IF calls[k].dtype = "application_form"
         THEN InSeq(calls[k].doc, applications)
              /\ ~InSeq(calls[k].doc, supporting_docs)
         ELSE InSeq(calls[k].doc, supporting_docs)
              /\ ~InSeq(calls[k].doc, applications)

\* C15 witness: a completed standard run in which the second config, an
\* application form, had its whole chain before the chain of the first
\* config, a supporting document.
C15_Witness ==
  /\ Standard /\ pc = "done"
  /\ InSeq(1, supporting_docs) /\ InSeq(2, applications)
  /\ \E k \in CallsOf("UpdateApprovalStatus", 2) :
       \E m \in CallsOf("Extract", 1) : k < m

\* every batch entry has had at most one call of each kind
AtMostOneCallEach ==
  \A d \in DOMAIN configs :
    \A op \in ChainOps \cup {"Classify"} : Count(op, d) <= 1

\* run_pipeline has returned or raised
Terminated == pc \in {"done", "error"}

\* C17: every run terminates, and at every moment each batch entry has had
\* at most one Classify, one Extract, one Validate, one Match, one
\* ComputeApprovalStatus and one UpdateApprovalStatus call: no call is
\* issued again after a non-success response.
C17_NoRetriesAndTermination == []AtMostOneCallEach /\ <>Terminated

\* C17 witness: a run over more than one entry that returned after a
\* Classify and an Extract call had come back non-success.
C17_Witness ==
  /\ pc = "done"
  /\ Len(configs) > 1
  /\ \E k \in DOMAIN calls : calls[k].op = "Classify" /\ calls[k].res = "fail"
  /\ \E k \in DOMAIN calls : calls[k].op = "Extract" /\ calls[k].res = "fail"

\* C18: Validate and Match calls are made for supporting documents only,
\* never for a member of applications; and in every flag combination a
\* completed run has made exactly one Extract call for every routed
\* application form.
C18_ApplicationChainShape ==
  /\ \A k \in DOMAIN calls :
       calls[k].op \in {"Validate", "Match"} =>
         /\ InSeq(calls[k].doc, supporting_docs)
         /\ ~InSeq(calls[k].doc, applications)
  /\ \A k \in DOMAIN applications : Count("Extract", applications[k]) <= 1
  /\ pc = "done" =>
       \A k \in DOMAIN applications :
         /\ Count("Extract", applications[k]) = 1
         /\ Count("Validate", applications[k]) = 0
         /\ Count("Match", applications[k]) = 0

\* C18 witness: a completed reassign run whose application form was
\* extracted.
C18_Witness ==
  /\ is_reassign /\ pc = "done"
  /\ applications = <<1>>
  /\ Count("Extract", 1) = 1

\* number of calls of one kind in the whole run
Total(op) == Cardinality({k \in DOMAIN calls : calls[k].op = op})

\* C19: with is_hitl or is_reassign set the two groups are never both
\* non-empty and hold at most one document together, and the run makes at
\* most one Extract, one Validate, one Match and one UpdateApprovalStatus
\* call in all.
C19_FastPathGroupBound ==
  FastPath =>
    /\ ~(applications # <<>> /\ supporting_docs # <<>>)
    /\ Len(applications) + Len(supporting_docs) <= 1
    /\ \A op \in {"Extract", "Validate", "Match", "UpdateApprovalStatus"} :
         Total(op) <= 1

\* C19 witness: a completed hitl run over more than one entry that made one
\* call of each of the four kinds.
C19_Witness ==
  /\ is_hitl /\ pc = "done"
  /\ Len(configs) > 1
  /\ \A op \in {"Extract", "Validate", "Match", "UpdateApprovalStatus"} :
       Total(op) = 1
====
